---------------------------- MODULE Spec2Model ----------------------------
(***************************************************************************)
(* A model of the leptos-todo application: the record store behind the     *)
(* server functions (src/src/server/todo.rs) and the client state of the   *)
(* TodoList component (src/src/components/todo.rs): the four server        *)
(* actions with their version counters, the paginated resource that is     *)
(* refetched when a counter or current_page changes, the notification      *)
(* slot with its dismissal timers, the rendered rows with their edit       *)
(* panels, and the pagination controls.                                    *)
(*                                                                         *)
(* A server action (leptos create_server_action) is modelled by what the   *)
(* component relies on: dispatch starts one request; when the request      *)
(* settles the action's value is set to the result and its version is      *)
(* incremented, in one batch.  A resource (leptos create_resource) loads   *)
(* whenever its memoised source tuple changes; every load takes the next   *)
(* load number and a result is stored only if its load number is still     *)
(* the latest one.                                                         *)
(***************************************************************************)
EXTENDS Integers, Sequences, FiniteSets, TLC

VARIABLES
    todos,              \* the rows of table todos, in order of creation
    next_id,            \* the next value of the serial id
    current_page,       \* RwSignal<u32> current_page
    version,            \* version[k]: Action::version() of the action of kind k
    value,              \* value[k]: Action::value() of the action of kind k
    mutations,          \* dispatched server actions that have not settled
    n_dispatch,         \* number of dispatches so far
    res_version,        \* number of loads of refetch_resource so far
    res_value,          \* the value of refetch_resource
    fetches,            \* get_paginated_todos calls that have not resolved
    show_notification,  \* ReadSignal<bool> show_notification
    notification_type,  \* ReadSignal<Option<NotificationType>>
    timers,             \* pending set_timeout(clear_notification, 1 s), oldest first
    rows,               \* the rendered TodoItem components of the list
    n_nav,              \* number of navigation clicks so far
    p_total,            \* PaginatedTodos.total handed to the page computation
    p_current,          \* current_page handed to the page computation
    validation_shown,   \* the browser reports an empty required field of the add form
    query,              \* ReadSignal<String> query of the search input
    debounced,          \* Signal<String> debounced = signal_debounced(query, 500.0)
    debounce_armed,     \* the 500 ms timer of the debounce is running
    n_keys,             \* number of input events on the search input so far
    search_version,     \* number of loads of the search resource so far
    search_value,       \* the value of the search resource
    searches            \* search_todo calls that have not resolved

vars == <<todos, next_id, current_page, version, value, mutations, n_dispatch,
          res_version, res_value, fetches, show_notification, notification_type,
          timers, rows, n_nav, p_total, p_current, validation_shown,
          query, debounced, debounce_armed, n_keys, search_version,
          search_value, searches>>

store_vars  == <<todos, next_id>>
action_vars == <<version, value, mutations, n_dispatch>>
res_vars    == <<res_version, res_value, fetches>>
notif_vars  == <<show_notification, notification_type, timers>>
page_vars   == <<p_total, p_current>>
form_vars   == <<validation_shown>>
typing_vars == <<query, debounced, debounce_armed, n_keys>>
search_vars == <<typing_vars, search_version, search_value, searches>>

(***************************************************************************)
(* Bounds of the model.                                                    *)
(***************************************************************************)
MaxEvents   == 2      \* dispatches, navigation clicks, search inputs in one behaviour
MaxClickPos == 1      \* the user acts on the first MaxClickPos rendered rows
MaxInitRows == 11     \* rows of the table when the page is opened
MaxTotal    == 62     \* largest small total handed to the page computation
MaxLongRows == 51     \* rows of a table of six pages, the last of one record

(***************************************************************************)
(* Program constants.                                                      *)
(***************************************************************************)
PER_PAGE      == 10
VISIBLE_PAGES == 5
Limb          == 65536         \* a u32 is two 16-bit limbs <<high, low>>
MaxSerial     == 2147483647    \* the largest id of a serial column

Min(a, b) == IF a < b THEN a ELSE b
Max(a, b) == IF a > b THEN a ELSE b

Kinds == {"add", "complete", "update", "delete"}

\* the strings the user submits in the add form and types in an edit panel
Titles            == {"b"}
DueDates          == {"2024-01-01"}
Descriptions      == {"d"}
TypedTitles       == Titles \cup {""}
TypedDescriptions == {""}
TypedDueDates     == {""}
\* what the add form can hold when its submit button is clicked
FormTitles        == Titles \cup {""}
FormDueDates      == DueDates \cup {""}
\* the strings a search is made with
Queries           == {"", "a", "b"}

\* Option::None of the action values, the resource value and the notification type
None == [tag |-> "None"]


(***************************************************************************)
(* The record store and the server functions (src/src/server/todo.rs).     *)
(***************************************************************************)

\* ServerFnError values and their Display text (e.to_string())
ServerError(msg) == [tag |-> "Err", variant |-> "ServerError", msg |-> msg]
ArgsError(msg)   == [tag |-> "Err", variant |-> "Args", msg |-> msg]
Ok               == [tag |-> "Ok"]

ErrToString(e) ==
    IF e.variant = "Args"
    THEN <<"error deserializing server function arguments: ", e.msg>>
    ELSE <<"error running server function: ", e.msg>>

\* u32 arithmetic of a release build (a debug build panics where these wrap),
\* on two limbs so that every u32 is a value of the model; n is below Limb
Wide(n) == <<n \div Limb, n % Limb>>
Narrow(w) == w[1] * Limb + w[2]
WideAdd(w, n) ==
    LET lo == w[2] + n IN <<(w[1] + lo \div Limb) % Limb, lo % Limb>>
WideSub(w, n) ==
    LET lo == w[2] - n
    IN  IF lo >= 0 THEN <<w[1], lo>> ELSE <<(w[1] + Limb - 1) % Limb, lo + Limb>>
WideMul(w, n) ==
    LET lo == w[2] * n IN <<(w[1] * n + lo \div Limb) % Limb, lo % Limb>>
WideDiv(w, n) == (w[1] \div n) * Limb + ((w[1] % n) * Limb + w[2]) \div n

U32Add(a, b) == Narrow(WideAdd(Wide(a), b))
U32Sub(a, b) == Narrow(WideSub(Wide(a), b))
U32Mul(a, b) == Narrow(WideMul(Wide(a), b))
SaturatingSub(a, b) == IF a > b THEN a - b ELSE 0

RECURSIVE Reverse(_)
Reverse(s) == IF s = <<>> THEN <<>> ELSE Append(Reverse(Tail(s)), Head(s))

\* NotCompleted that filters nothing
NotCompleted_Any(r) == r.completed \in BOOLEAN

\* completed = false
NotCompleted(r) == ~r.completed

\* WHERE completed = false ORDER BY created DESC
Eligible(tbl) == Reverse(SelectSeq(tbl, NotCompleted))

\* a selected row as the Todo sent to the client
AsTodo(r) == [id |-> r.id, title |-> r.title, description |-> r.description,
              completed |-> FALSE, due_date |-> r.due_date]

\* SELECT ... LIMIT 10 OFFSET page * 10
SelectPage(tbl, page) ==
    LET e      == Eligible(tbl)
        offset == U32Mul(page, 10)
        last   == Min(offset + 10, Len(e))
    IN  [i \in 1..Max(0, last - offset) |-> AsTodo(e[offset + i])]

\* title::tsvector @@ plainto_tsquery($1), for titles and queries of one
\* word: the query matches the titles that are that word, and an empty query
\* matches nothing
Matches(title, q) == q # "" /\ title = q

\* search_todo: SELECT ... WHERE title::tsvector @@ plainto_tsquery($1)
\* AND completed = false, the rows in the order of the table
SearchTodo(tbl, q) ==
    LET Hit(r) == Matches(r.title, q) /\ NotCompleted(r)
        hits   == SelectSeq(tbl, Hit)
    IN  [i \in 1..Len(hits) |-> AsTodo(hits[i])]

\* SELECT count(1) FROM todos WHERE completed = false
CountEligible(tbl) == Len(SelectSeq(tbl, NotCompleted))

\* total_pages: (total + 10 - 1) / 10
ServerTotalPages(total) == WideDiv(WideSub(WideAdd(Wide(total), 10), 1), 10)

PaginatedTodos(items, total, page) ==
    [items |-> items, total |-> total, page |-> page,
     total_pages |-> ServerTotalPages(total)]

\* the due_date string parsed into a date and printed back by to_char:
\* "outofrange" stands for a well-formed string that names no calendar date,
\* which from_ymd_opt(...).unwrap_or(today) replaces by today
Today == "2026-11-03"
ParseDate(s) == IF s = "outofrange" THEN Today ELSE s

\* INSERT INTO todos(title, description, due_date)
InsertRow(tbl, id, title, description, due_date) ==
    Append(tbl, [id |-> id, title |-> title, description |-> description,
                 completed |-> FALSE, due_date |-> ParseDate(due_date)])

\* CompleteRow that flips the flag
CompleteRow_Toggle(tbl, id) ==
    [i \in 1..Len(tbl) |->
        IF tbl[i].id = id
        THEN [tbl[i] EXCEPT !.completed = ~tbl[i].completed] ELSE tbl[i]]

\* UPDATE todos SET completed = true WHERE id = $1
CompleteRow(tbl, id) ==
    [i \in 1..Len(tbl) |->
        IF tbl[i].id = id THEN [tbl[i] EXCEPT !.completed = TRUE] ELSE tbl[i]]

\* UpdateRow that inserts the row when no row has the id
UpdateRow_Upsert(tbl, id, title, description, due_date) ==
    IF \E i \in 1..Len(tbl) : tbl[i].id = id
    THEN [i \in 1..Len(tbl) |->
            IF tbl[i].id = id
            THEN [tbl[i] EXCEPT !.title = title, !.description = description,
                                !.due_date = due_date]
            ELSE tbl[i]]
    ELSE Append(tbl, [id |-> id, title |-> title, description |-> description,
                      completed |-> FALSE, due_date |-> due_date])

\* UPDATE todos SET title = $1, description = $2, due_date = $3 WHERE id = $4
UpdateRow(tbl, id, title, description, due_date) ==
    [i \in 1..Len(tbl) |->
        IF tbl[i].id = id
        THEN [tbl[i] EXCEPT !.title = title, !.description = description,
                            !.due_date = ParseDate(due_date)]
        ELSE tbl[i]]

\* DELETE FROM todos WHERE id = $1
DeleteRow(tbl, id) ==
    LET Keep(r) == r.id # id IN SelectSeq(tbl, Keep)


(***************************************************************************)
(* The client: TodoList and its children (src/src/components/todo.rs).     *)
(***************************************************************************)

InitRow(i) == [id |-> i, title |-> "a", description |-> "d",
               completed |-> FALSE, due_date |-> "2024-01-01"]

\* a get_paginated_todos(page) call of load number fid
NewFetch(fid, page) ==
    [fid |-> fid, page |-> page, phase |-> "sent", items |-> <<>>, total |-> 0]

\* a search_todo(query) call of load number sid
NewSearch(sid, q) == [sid |-> sid, query |-> q, phase |-> "sent", items |-> <<>>]

\* the state after construction, over a table of n rows
StartState(n) ==
    /\ todos = [i \in 1..n |-> InitRow(i)]
    /\ next_id = n + 1
    /\ current_page = 0
    /\ version = [k \in Kinds |-> 0]
    /\ value = [k \in Kinds |-> None]
    /\ mutations = {}
    /\ n_dispatch = 0
    /\ res_version = 1
    /\ res_value = None
    /\ fetches = {NewFetch(1, 0)}
    /\ show_notification = FALSE
    /\ notification_type = None
    /\ timers = <<>>
    /\ rows = <<>>
    /\ n_nav = 0
    /\ p_total = 0
    /\ p_current = 0
    /\ validation_shown = FALSE
    /\ query = ""
    /\ debounced = ""
    /\ debounce_armed = FALSE
    /\ n_keys = 0
    /\ search_version = 1
    /\ search_value = None
    /\ searches = {NewSearch(1, "")}

Init == \E n \in {0, MaxInitRows} : StartState(n)

\* ---- refetch_resource ---------------------------------------------------

\* Source with complete_action.version() left out of the tuple
Source_NoComplete(v, page) == <<v["add"], 0, v["update"], v["delete"], page>>

\* the source tuple of refetch_resource
Source(v, page) == <<v["add"], v["complete"], v["update"], v["delete"], page>>

\* Refetch without the memo on the source: a load at every write
Refetch_Always(old, new) ==
    /\ res_version' = res_version + 1
    /\ fetches' = fetches \cup {NewFetch(res_version + 1, new[5])}

\* the resource's reaction to its source: one load, of the page in the tuple,
\* when the memoised tuple changed, none when it did not
Refetch(old, new) ==
    IF new # old
    THEN /\ res_version' = res_version + 1
         /\ fetches' = fetches \cup {NewFetch(res_version + 1, new[5])}
    ELSE /\ res_version' = res_version
         /\ fetches' = fetches

\* the server runs the first query of get_paginated_todos
FetchItems(f) ==
    /\ f.phase = "sent"
    /\ fetches' = (fetches \ {f}) \cup
                  {[f EXCEPT !.phase = "items", !.items = SelectPage(todos, f.page)]}
    /\ UNCHANGED <<store_vars, current_page, action_vars, res_version, res_value,
                   notif_vars, rows, n_nav, page_vars, form_vars, search_vars>>

\* the server runs the second query of get_paginated_todos
FetchTotal(f) ==
    /\ f.phase = "items"
    /\ fetches' = (fetches \ {f}) \cup
                  {[f EXCEPT !.phase = "done", !.total = CountEligible(todos)]}
    /\ UNCHANGED <<store_vars, current_page, action_vars, res_version, res_value,
                   notif_vars, rows, n_nav, page_vars, form_vars, search_vars>>

\* connecting or a query fails: the call returns Err
FetchFail(f) ==
    /\ f.phase \in {"sent", "items"}
    /\ fetches' = (fetches \ {f}) \cup
                  {[f EXCEPT !.phase = "failed", !.items = <<>>, !.total = 0]}
    /\ UNCHANGED <<store_vars, current_page, action_vars, res_version, res_value,
                   notif_vars, rows, n_nav, page_vars, form_vars, search_vars>>

FetchResult(f) ==
    IF f.phase = "done"
    THEN [tag |-> "Ok", data |-> PaginatedTodos(f.items, f.total, f.page)]
    ELSE ServerError("connection")

\* Render that leaves the old rows in place when the value is an error
Render_KeepOnError(v) ==
    IF v.tag = "Ok"
    THEN [i \in 1..Len(v.data.items) |->
            [todo |-> v.data.items[i],
             hidden |-> TRUE,
             form_state |-> [title |-> v.data.items[i].title,
                             description |-> v.data.items[i].description,
                             due_date |-> v.data.items[i].due_date]]]
    ELSE rows

\* the TodoItem components the todos closure creates from a resource value
Render(v) ==
    IF v.tag = "Ok"
    THEN [i \in 1..Len(v.data.items) |->
            [todo |-> v.data.items[i],
             hidden |-> TRUE,
             form_state |-> [title |-> v.data.items[i].title,
                             description |-> v.data.items[i].description,
                             due_date |-> v.data.items[i].due_date]]]
    ELSE <<>>

\* IsLatest without the comparison of load numbers
IsLatest_Any(fid) == fid <= res_version

\* whether the result of load number fid is stored
IsLatest(fid) == fid = res_version

\* a fetch resolves on the client
Resolve(f) ==
    /\ f.phase \in {"done", "failed"}
    /\ fetches' = fetches \ {f}
    /\ IF IsLatest(f.fid)
       THEN /\ res_value' = FetchResult(f)
            /\ rows' = Render(FetchResult(f))
       ELSE UNCHANGED <<res_value, rows>>
    /\ UNCHANGED <<store_vars, current_page, action_vars, res_version,
                   notif_vars, n_nav, page_vars, form_vars, search_vars>>


\* ---- the search resource --------------------------------------------------

\* SearchSource that reads the version of every action
SearchSource_AllVersions(q, v) == <<q, v>>

\* the source tuple of the resource of Search
SearchSource(q, v) == <<q, v["complete"]>>

\* the resource's reaction to its source: one load, of the query in the
\* tuple, when the memoised tuple changed, none when it did not
SearchRefetch(old, new) ==
    IF new # old
    THEN /\ search_version' = search_version + 1
         /\ searches' = searches \cup {NewSearch(search_version + 1, new[1])}
    ELSE /\ search_version' = search_version
         /\ searches' = searches


\* ---- the four server actions ---------------------------------------------

\* a dispatched server action: AddTodo, CompleteTodo, UpdateTodo or DeleteTodo
\* (id is unused by AddTodo; the strings are unused by CompleteTodo, DeleteTodo)
Mutation(did, kind, id, title, description, due_date) ==
    [did |-> did, kind |-> kind, id |-> id, title |-> title,
     description |-> description, due_date |-> due_date,
     phase |-> "sent", result |-> None]

\* Action::pending() of the action of kind k
Pending(k) == \E m \in mutations : m.kind = k

\* Action::dispatch: the request leaves; nothing the component reads changes
Dispatch(kind, id, title, description, due_date) ==
    /\ n_dispatch + n_nav + n_keys < MaxEvents
    /\ n_dispatch' = n_dispatch + 1
    /\ mutations' = mutations \cup
          {Mutation(n_dispatch + 1, kind, id, title, description, due_date)}
    /\ UNCHANGED <<version, value>>

\* the write of a server function that got its connection
ServerWrite(m) ==
    CASE m.kind = "add" ->
            /\ todos' = InsertRow(todos, next_id, m.title, m.description, m.due_date)
            /\ next_id' = next_id + 1
      [] m.kind = "complete" ->
            /\ todos' = CompleteRow(todos, m.id)
            /\ next_id' = next_id
      [] m.kind = "update" ->
            /\ todos' = UpdateRow(todos, m.id, m.title, m.description, m.due_date)
            /\ next_id' = next_id
      [] m.kind = "delete" ->
            /\ todos' = DeleteRow(todos, m.id)
            /\ next_id' = next_id

\* what a server function returns before it connects, if anything:
\* update_todo rejects empty fields; add_todo indexes ymd[1] of a split that
\* has one element when due_date holds no '-', and the handler dies
Rejection(m) ==
    CASE m.kind = "update" /\ m.title = "" -> ArgsError("title cannot be empty")
      [] m.kind = "update" /\ m.due_date = "" -> ArgsError("due_date cannot be empty")
      [] m.kind = "add" /\ m.due_date = "" -> ServerError("panicked")
      [] OTHER -> None

\* the server runs the server function of m to its end
ServerExec(m) ==
    /\ m.phase = "sent"
    /\ IF Rejection(m) # None
       THEN /\ mutations' = (mutations \ {m}) \cup
                   {[m EXCEPT !.phase = "done", !.result = Rejection(m)]}
            /\ UNCHANGED store_vars
       ELSE /\ mutations' = (mutations \ {m}) \cup
                   {[m EXCEPT !.phase = "done", !.result = Ok]}
            /\ ServerWrite(m)
    /\ UNCHANGED <<current_page, version, value, n_dispatch, res_vars,
                   notif_vars, rows, n_nav, page_vars, form_vars, search_vars>>

\* the request or the connection to the database fails: nothing is written
ServerFail(m) ==
    /\ m.phase = "sent"
    /\ mutations' = (mutations \ {m}) \cup
          {[m EXCEPT !.phase = "done", !.result = ServerError("connection")]}
    /\ UNCHANGED <<store_vars, current_page, version, value, n_dispatch, res_vars,
                   notif_vars, rows, n_nav, page_vars, form_vars, search_vars>>

\* ---- notification ---------------------------------------------------------

Success(kind) ==
    CASE kind = "add" -> [tag |-> "SuccessAdd"]
      [] kind = "update" -> [tag |-> "SuccessUpdate"]
      [] kind = "delete" -> [tag |-> "SuccessDelete"]

Error(e) == [tag |-> "Error", msg |-> ErrToString(e)]

\* SetTimeout that cancels the pending timers and starts one
SetTimeout_Restart(did) == timers' = <<did>>

\* set_timeout(clear_notification, Duration::from_secs(1)); equal delays fire
\* in the order they were set
SetTimeout(did) == timers' = Append(timers, did)

\* the create_effect on add_action.value(), update_action.value() and
\* delete_action.value(), run with the value a settlement has set
ValueEffect(kind, result, did) ==
    IF result.tag = "Ok"
    THEN /\ show_notification' = TRUE
         /\ notification_type' = Success(kind)
         /\ SetTimeout(did)
    ELSE /\ show_notification' = show_notification
         /\ notification_type' = Error(result)
         /\ SetTimeout(did)

\* the effects that read the value of the action of this kind:
\* none reads complete_action.value()
Effects(kind, result, did) ==
    IF kind \in {"add", "update", "delete"}
    THEN ValueEffect(kind, result, did)
    ELSE UNCHANGED notif_vars

\* Bump that counts every settlement on add_action
Bump_Add(k) == [version EXCEPT !["add"] = @ + 1]

\* the version counters after a settlement of kind k
Bump(k) == [version EXCEPT ![k] = @ + 1]

\* a dispatched action settles: value and version are set in one batch, then
\* the subscribers run: the notification effects and refetch_resource
Settle(m) ==
    /\ m.phase = "done"
    /\ mutations' = mutations \ {m}
    /\ value' = [value EXCEPT ![m.kind] = m.result]
    /\ version' = Bump(m.kind)
    /\ Effects(m.kind, m.result, m.did)
    /\ Refetch(Source(version, current_page), Source(version', current_page))
    /\ SearchRefetch(SearchSource(debounced, version), SearchSource(debounced, version'))
    /\ UNCHANGED <<store_vars, current_page, n_dispatch, res_value, rows, n_nav,
                   page_vars, form_vars, typing_vars, search_value>>

\* ClearNotification that hides the slot and keeps its kind
ClearNotification_KeepType ==
    /\ show_notification' = FALSE
    /\ notification_type' = notification_type

\* clear_notification, run by a timer
ClearNotification ==
    /\ show_notification' = FALSE
    /\ notification_type' = None

TimerFire ==
    /\ timers # <<>>
    /\ timers' = Tail(timers)
    /\ ClearNotification
    /\ UNCHANGED <<store_vars, current_page, action_vars, res_vars, rows, n_nav,
                   page_vars, form_vars, search_vars>>


\* ---- the add form and the rows --------------------------------------------

\* SubmitAdd of a form whose inputs are not required
SubmitAdd_NotRequired(title, description, due_date) ==
    /\ ~Pending("add")
    /\ Dispatch("add", 0, title, description, due_date)
    /\ validation_shown' = FALSE
    /\ UNCHANGED <<store_vars, current_page, res_vars, notif_vars, rows, n_nav,
                   page_vars, search_vars>>

\* FormAddTodo: title and due_date are required inputs and the submit button
\* is disabled while add_action is pending
SubmitAdd(title, description, due_date) ==
    /\ title # ""
    /\ due_date # ""
    /\ ~Pending("add")
    /\ Dispatch("add", 0, title, description, due_date)
    /\ validation_shown' = FALSE
    /\ UNCHANGED <<store_vars, current_page, res_vars, notif_vars, rows, n_nav,
                   page_vars, search_vars>>

\* a required input is empty: the browser reports it and submits nothing
SubmitAddInvalid(title, description, due_date) ==
    /\ title = "" \/ due_date = ""
    /\ ~Pending("add")
    /\ validation_shown' = TRUE
    /\ UNCHANGED <<store_vars, current_page, action_vars, res_vars, notif_vars,
                   rows, n_nav, page_vars, search_vars>>

\* a click on the submit button of the add form holding these strings
AddFormSubmit(title, description, due_date) ==
    \/ SubmitAdd(title, description, due_date)
    \/ SubmitAddInvalid(title, description, due_date)

\* the rows the user acts on
Clickable == 1..Min(Len(rows), MaxClickPos)

\* TodoItem::on_complete
OnComplete(i) ==
    /\ Dispatch("complete", rows[i].todo.id, "", "", "")
    /\ UNCHANGED <<store_vars, current_page, res_vars, notif_vars, rows, n_nav,
                   page_vars, form_vars, search_vars>>

\* TodoItem::on_delete
OnDelete(i) ==
    /\ Dispatch("delete", rows[i].todo.id, "", "", "")
    /\ UNCHANGED <<store_vars, current_page, res_vars, notif_vars, rows, n_nav,
                   page_vars, form_vars, search_vars>>

\* TodoItem::on_edit: a click on the content, which is shown while hidden holds
OnEdit(i) ==
    /\ rows[i].hidden
    /\ rows' = [rows EXCEPT ![i].hidden = FALSE]
    /\ UNCHANGED <<store_vars, current_page, action_vars, res_vars, notif_vars,
                   n_nav, page_vars, form_vars, search_vars>>

\* OnInputTitle that takes the empty string too
OnInputTitle_Unguarded(i, v) ==
    /\ ~rows[i].hidden
    /\ rows' = [rows EXCEPT ![i].form_state.title = v]
    /\ UNCHANGED <<store_vars, current_page, action_vars, res_vars, notif_vars,
                   n_nav, page_vars, form_vars, search_vars>>

\* FormUpdateTodo: on:input of the title input
OnInputTitle(i, v) ==
    /\ ~rows[i].hidden
    /\ rows' = IF v # "" THEN [rows EXCEPT ![i].form_state.title = v] ELSE rows
    /\ UNCHANGED <<store_vars, current_page, action_vars, res_vars, notif_vars,
                   n_nav, page_vars, form_vars, search_vars>>

\* FormUpdateTodo: on:input of the description textarea
OnInputDescription(i, v) ==
    /\ ~rows[i].hidden
    /\ rows' = [rows EXCEPT ![i].form_state.description = v]
    /\ UNCHANGED <<store_vars, current_page, action_vars, res_vars, notif_vars,
                   n_nav, page_vars, form_vars, search_vars>>

\* FormUpdateTodo: on:input of the due date input
OnInputDueDate(i, v) ==
    /\ ~rows[i].hidden
    /\ rows' = IF v # "" THEN [rows EXCEPT ![i].form_state.due_date = v] ELSE rows
    /\ UNCHANGED <<store_vars, current_page, action_vars, res_vars, notif_vars,
                   n_nav, page_vars, form_vars, search_vars>>

\* OnSubmit that leaves the panel open
OnSubmit_KeepOpen(i) ==
    /\ ~rows[i].hidden
    /\ Dispatch("update", rows[i].todo.id, rows[i].form_state.title,
                rows[i].form_state.description, rows[i].form_state.due_date)
    /\ rows' = rows
    /\ UNCHANGED <<store_vars, current_page, res_vars, notif_vars, n_nav, page_vars, form_vars, search_vars>>

\* FormUpdateTodo::on_submit: the Save button, shown while hidden does not hold
OnSubmit(i) ==
    /\ ~rows[i].hidden
    /\ Dispatch("update", rows[i].todo.id, rows[i].form_state.title,
                rows[i].form_state.description, rows[i].form_state.due_date)
    /\ rows' = [rows EXCEPT ![i].hidden = TRUE]
    /\ UNCHANGED <<store_vars, current_page, res_vars, notif_vars, n_nav, page_vars, form_vars, search_vars>>

\* ---- pagination -----------------------------------------------------------

\* TotalPages that rounds down
TotalPages_Floor(total) == WideDiv(Wide(total), PER_PAGE)

\* Pagination: total_pages recomputed from response.total
TotalPages(total) ==
    WideDiv(WideSub(WideAdd(Wide(total), PER_PAGE), 1), PER_PAGE)

HalfVisible == VISIBLE_PAGES \div 2

\* StartPage without the clamp at the upper boundary
StartPage_NoClamp(current, total_pages) ==
    IF current > HalfVisible THEN SaturatingSub(current, HalfVisible) ELSE 0

\* start_page of the window of page buttons
StartPage(current, total_pages) ==
    IF current > HalfVisible
    THEN IF U32Add(current, HalfVisible) >= total_pages
         THEN SaturatingSub(total_pages, VISIBLE_PAGES)
         ELSE SaturatingSub(current, HalfVisible)
    ELSE 0

EndPage(current, total_pages) ==
    Min(U32Add(StartPage(current, total_pages), VISIBLE_PAGES), total_pages)

\* visible_pages: (start_page..end_page).collect()
VisiblePages(current, total_pages) ==
    LET start == StartPage(current, total_pages)
        end   == EndPage(current, total_pages)
    IN  [i \in 1..Max(0, end - start) |-> start + i - 1]

\* the controls are rendered from an Ok value of the resource
ControlsShown == res_value.tag = "Ok"
ShownTotalPages == TotalPages(res_value.data.total)

\* disabled=move || current_page() == 0
BackDisabled(current) == current = 0
\* ForwardDisabled that lets the last page go forward
ForwardDisabled_PastEnd(current, total_pages) == current >= total_pages

\* disabled=move || current_page() + 1 >= total_pages
ForwardDisabled(current, total_pages) == U32Add(current, 1) >= total_pages

\* a - b on u32: where a < b a build with overflow checks panics and a build
\* without them wraps around
Sub(a, b) ==
    IF a < b
    THEN {[tag |-> "panic"], [tag |-> "value", wide |-> WideSub(Wide(a), b)]}
    ELSE {[tag |-> "value", wide |-> Wide(a - b)]}

WideLess(v, w) == v[1] < w[1] \/ (v[1] = w[1] /\ v[2] < w[2])

\* pages.first().copied().unwrap_or(0), pages.last().copied().unwrap_or(0)
FirstOr0(pages) == IF pages = <<>> THEN 0 ELSE pages[1]
LastOr0(pages) == IF pages = <<>> THEN 0 ELSE pages[Len(pages)]

ShowStartEllipsis(pages) == FirstOr0(pages) > 0

\* what the rendering of the end ellipsis comes to, in either build
ShowEndEllipsis(pages, total_pages) ==
    {IF o.tag = "panic" THEN "panic"
     ELSE IF WideLess(Wide(LastOr0(pages)), o.wide) THEN "shown" ELSE "hidden" :
        o \in Sub(total_pages, 1)}

\* a write of current_page and the reaction of refetch_resource to it
SetPage(p) ==
    /\ n_dispatch + n_nav + n_keys < MaxEvents
    /\ n_nav' = n_nav + 1
    /\ current_page' = p
    /\ Refetch(Source(version, current_page), Source(version, p))
    /\ UNCHANGED <<store_vars, action_vars, res_value, notif_vars, rows, page_vars, form_vars, search_vars>>

GoToFirst ==
    /\ ControlsShown
    /\ ~BackDisabled(current_page)
    /\ SetPage(0)

GoToPrev ==
    /\ ControlsShown
    /\ ~BackDisabled(current_page)
    /\ SetPage(IF current_page > 0 THEN current_page - 1 ELSE current_page)

\* GoToNext with neither the disabled attribute nor the bound of go_to_next
GoToNext_Unbounded ==
    /\ ControlsShown
    /\ SetPage(U32Add(current_page, 1))

GoToNext ==
    /\ ControlsShown
    /\ ~ForwardDisabled(current_page, ShownTotalPages)
    /\ SetPage(IF U32Add(current_page, 1) < ShownTotalPages
               THEN U32Add(current_page, 1) ELSE current_page)

GoToLast ==
    /\ ControlsShown
    /\ ~ForwardDisabled(current_page, ShownTotalPages)
    /\ SetPage(U32Sub(ShownTotalPages, 1))

\* PageButton on_click -> go_to_page
GoToPage(n) ==
    /\ ControlsShown
    /\ \E i \in DOMAIN VisiblePages(current_page, ShownTotalPages) :
          VisiblePages(current_page, ShownTotalPages)[i] = n
    /\ SetPage(n)

\* ---- the specification -------------------------------------------------

\* the page numbers a click or a page computation is tried with
Pages == 0..(MaxTotal \div PER_PAGE + 1)

Next ==
    \/ \E f \in fetches : FetchItems(f)
    \/ \E f \in fetches : FetchTotal(f)
    \/ \E f \in fetches : FetchFail(f)
    \/ \E f \in fetches : Resolve(f)
    \/ \E t \in Titles, d \in Descriptions, dd \in DueDates : SubmitAdd(t, d, dd)
    \/ \E i \in Clickable : OnComplete(i)
    \/ \E i \in Clickable : OnDelete(i)
    \/ \E i \in Clickable : OnEdit(i)
    \/ \E i \in Clickable, v \in TypedTitles : OnInputTitle(i, v)
    \/ \E i \in Clickable, v \in TypedDescriptions : OnInputDescription(i, v)
    \/ \E i \in Clickable, v \in TypedDueDates : OnInputDueDate(i, v)
    \/ \E i \in Clickable : OnSubmit(i)
    \/ \E m \in mutations : ServerExec(m)
    \/ \E m \in mutations : ServerFail(m)
    \/ \E m \in mutations : Settle(m)
    \/ TimerFire
    \/ GoToFirst
    \/ GoToPrev
    \/ GoToNext
    \/ GoToLast
    \/ \E n \in Pages : GoToPage(n)

Spec == Init /\ [][Next]_vars


\* ---- the page computation on its own -------------------------------------

\* the totals the page computation is run on: the small ones and the largest
\* counts a table with a serial id can hold
Totals == (0..MaxTotal) \cup {MaxSerial - k : k \in 0..12}

PageInit ==
    /\ Init
    /\ todos = <<>>

\* a response with another total arrives
PickTotal(t) ==
    /\ p_total' = t
    /\ UNCHANGED <<store_vars, current_page, action_vars, res_vars, notif_vars,
                   rows, n_nav, p_current, form_vars, search_vars>>

\* current_page is set to another page
PickPage(p) ==
    /\ p_current' = p
    /\ UNCHANGED <<store_vars, current_page, action_vars, res_vars, notif_vars,
                   rows, n_nav, p_total, form_vars, search_vars>>

PageNext ==
    \/ \E t \in Totals : PickTotal(t)
    \/ \E p \in Pages : PickPage(p)

PageSpec == PageInit /\ [][PageNext]_vars


\* ---- the add form with any content ---------------------------------------

FormNext ==
    \/ \E f \in fetches : FetchItems(f)
    \/ \E f \in fetches : FetchTotal(f)
    \/ \E f \in fetches : FetchFail(f)
    \/ \E f \in fetches : Resolve(f)
    \/ \E t \in FormTitles, d \in Descriptions, dd \in FormDueDates :
          AddFormSubmit(t, d, dd)
    \/ \E m \in mutations : ServerExec(m)
    \/ \E m \in mutations : ServerFail(m)
    \/ \E m \in mutations : Settle(m)
    \/ TimerFire

FormSpec == Init /\ [][FormNext]_vars


\* ---- the search overlay ---------------------------------------------------

\* OnInputSearch with no debounce: the resource reads the query itself
OnInputSearch_Undebounced(s) ==
    /\ n_dispatch + n_nav + n_keys < MaxEvents
    /\ s # query
    /\ query' = s
    /\ n_keys' = n_keys + 1
    /\ debounced' = s
    /\ debounce_armed' = FALSE
    /\ SearchRefetch(SearchSource(debounced, version), SearchSource(s, version))
    /\ UNCHANGED <<store_vars, current_page, action_vars, res_vars, notif_vars,
                   rows, n_nav, page_vars, form_vars, search_value>>

\* on:input of the search input: the query is set and the 500 ms of the
\* debounce start anew
OnInputSearch(s) ==
    /\ n_dispatch + n_nav + n_keys < MaxEvents
    /\ s # query
    /\ query' = s
    /\ n_keys' = n_keys + 1
    /\ debounce_armed' = TRUE
    /\ UNCHANGED <<store_vars, current_page, action_vars, res_vars, notif_vars,
                   rows, n_nav, page_vars, form_vars, debounced, search_version,
                   search_value, searches>>

\* 500 ms have passed since the last input event: debounced takes the query
\* and the search resource reacts to its source
DebounceFire ==
    /\ debounce_armed
    /\ debounce_armed' = FALSE
    /\ debounced' = query
    /\ SearchRefetch(SearchSource(debounced, version), SearchSource(query, version))
    /\ UNCHANGED <<store_vars, current_page, action_vars, res_vars, notif_vars,
                   rows, n_nav, page_vars, form_vars, query, n_keys, search_value>>

\* the server runs the query of search_todo
SearchExec(f) ==
    /\ f.phase = "sent"
    /\ searches' = (searches \ {f}) \cup
                   {[f EXCEPT !.phase = "done", !.items = SearchTodo(todos, f.query)]}
    /\ UNCHANGED <<store_vars, current_page, action_vars, res_vars, notif_vars,
                   rows, n_nav, page_vars, form_vars, typing_vars, search_version,
                   search_value>>

\* connecting or the query fails: the call returns Err
SearchFail(f) ==
    /\ f.phase = "sent"
    /\ searches' = (searches \ {f}) \cup {[f EXCEPT !.phase = "failed"]}
    /\ UNCHANGED <<store_vars, current_page, action_vars, res_vars, notif_vars,
                   rows, n_nav, page_vars, form_vars, typing_vars, search_version,
                   search_value>>

SearchResult(f) ==
    IF f.phase = "done"
    THEN [tag |-> "Ok", items |-> f.items]
    ELSE ServerError("connection")

\* a search resolves on the client: its result is stored if it is the
\* latest load
SearchResolve(f) ==
    /\ f.phase \in {"done", "failed"}
    /\ searches' = searches \ {f}
    /\ search_value' = IF f.sid = search_version THEN SearchResult(f)
                       ELSE search_value
    /\ UNCHANGED <<store_vars, current_page, action_vars, res_vars, notif_vars,
                   rows, n_nav, page_vars, form_vars, typing_vars, search_version>>

\* the search resource is loading: Suspense shows its empty fallback
SearchLoading == \E f \in searches : f.sid = search_version

\* the records the overlay shows
SearchShown ==
    IF ~SearchLoading /\ search_value.tag = "Ok" THEN search_value.items ELSE <<>>

\* the search input, the search resource, and the list with Add and Complete
SearchNext ==
    \/ \E s \in Queries : OnInputSearch(s)
    \/ DebounceFire
    \/ \E f \in searches : SearchExec(f)
    \/ \E f \in searches : SearchFail(f)
    \/ \E f \in searches : SearchResolve(f)
    \/ \E f \in fetches : FetchItems(f)
    \/ \E f \in fetches : FetchTotal(f)
    \/ \E f \in fetches : Resolve(f)
    \/ \E t \in Titles, d \in Descriptions, dd \in DueDates : SubmitAdd(t, d, dd)
    \/ \E i \in Clickable : OnComplete(i)
    \/ \E i \in Clickable : OnDelete(i)
    \/ \E i \in Clickable : OnEdit(i)
    \/ \E i \in Clickable : OnSubmit(i)
    \/ \E m \in mutations : ServerExec(m)
    \/ \E m \in mutations : Settle(m)
    \/ TimerFire

SearchSpec == Init /\ [][SearchNext]_vars


\* ---- the server functions called with any arguments ----------------------

\* the ids a caller names: one no row ever has, the oldest and the newest row
ApiIds == {0, 1, MaxInitRows}

\* a request to the endpoint of a server function, sent by any HTTP client
ApiRequest(kind, id, title, description, due_date) ==
    /\ Dispatch(kind, id, title, description, due_date)
    /\ UNCHANGED <<store_vars, current_page, res_vars, notif_vars, rows, n_nav,
                   page_vars, form_vars, search_vars>>

\* the response leaves for the caller
ApiRespond(m) ==
    /\ m.phase = "done"
    /\ mutations' = mutations \ {m}
    /\ UNCHANGED <<store_vars, current_page, version, value, n_dispatch, res_vars,
                   notif_vars, rows, n_nav, page_vars, form_vars, search_vars>>

ServerNext ==
    \/ \E k \in Kinds, id \in ApiIds, t \in FormTitles, d \in Descriptions,
          dd \in FormDueDates : ApiRequest(k, id, t, d, dd)
    \/ \E m \in mutations : ServerExec(m)
    \/ \E m \in mutations : ServerFail(m)
    \/ \E m \in mutations : ApiRespond(m)
    \/ \E f \in fetches : FetchItems(f)
    \/ \E f \in fetches : FetchTotal(f)
    \/ \E f \in fetches : FetchFail(f)
    \/ \E f \in fetches : Resolve(f)

ServerSpec == Init /\ [][ServerNext]_vars


\* ---- navigation over a table of several pages ---------------------------

\* the table is empty, holds three pages or holds six, the last of one record
LongInit == \E n \in {0, 23, MaxLongRows} : StartState(n)

\* page fetches, the navigation buttons and the deletion of a listed record
LongNext ==
    \/ \E f \in fetches : FetchItems(f)
    \/ \E f \in fetches : FetchTotal(f)
    \/ \E f \in fetches : FetchFail(f)
    \/ \E f \in fetches : Resolve(f)
    \/ \E i \in Clickable : OnDelete(i)
    \/ \E m \in mutations : ServerExec(m)
    \/ \E m \in mutations : ServerFail(m)
    \/ \E m \in mutations : Settle(m)
    \/ TimerFire
    \/ GoToFirst
    \/ GoToPrev
    \/ GoToNext
    \/ GoToLast
    \/ \E n \in Pages : GoToPage(n)

LongSpec == LongInit /\ [][LongNext]_vars


(***************************************************************************)
(* Properties.                                                             *)
(***************************************************************************)

\* a step in which the dispatched action m settles
Settles(m) == m \in mutations /\ m.phase = "done" /\ mutations' = mutations \ {m}

\* a step in which the oldest pending dismissal timer fires
Fires == timers # <<>> /\ timers' = Tail(timers)

Cleared == ~show_notification /\ notification_type = None

\* nothing is in flight: every dispatch has settled, every fetch has resolved
Quiescent == mutations = {} /\ fetches = {}

\* what the list shows
Displayed == [i \in 1..Len(rows) |-> rows[i].todo]

NoDuplicate(items) ==
    \A i, j \in 1..Len(items) : items[i].id = items[j].id => i = j

\* C1: once every mutation and every page fetch has settled, the page on
\* display (when the last fetch returned one) is what get_paginated_todos
\* returns for current_page on the final store: items, total and total_pages
\* are those of the store, nothing stale is shown and no record is shown twice.
C1_DisplayedPageIsFresh ==
    (Quiescent /\ res_value.tag = "Ok") =>
        /\ res_value.data =
              PaginatedTodos(SelectPage(todos, current_page),
                             CountEligible(todos), current_page)
        /\ Displayed = SelectPage(todos, current_page)
        /\ NoDuplicate(Displayed)

\* a Delete and an Update have settled and written the store, the fetches
\* they caused have resolved, and the list shows the updated record
C1_Witness ==
    /\ Quiescent
    /\ res_value.tag = "Ok"
    /\ version["delete"] = 1
    /\ version["update"] = 1
    /\ value["delete"].tag = "Ok"
    /\ value["update"].tag = "Ok"
    /\ Len(rows) = 10
    /\ rows[1].todo.title = "b"

\* C2: the result of a fetch is stored only if no later fetch has been
\* issued: a fetch that resolves after the source tuple changed again leaves
\* the resource value and the rendered rows untouched, and the fetch of the
\* latest tuple sets the value to its own result, in whatever order they resolve.
C2_StaleResultDiscarded ==
    [][\A f \in fetches :
          (f.phase \in {"done", "failed"} /\ fetches' = fetches \ {f}) =>
             IF f.fid = res_version
             THEN res_value' = FetchResult(f) /\ rows' = Render(FetchResult(f))
             ELSE res_value' = res_value /\ rows' = rows]_vars

\* the latest fetch has resolved and is on display while an older fetch,
\* carrying a different page, is still to arrive
C2_Witness ==
    /\ res_value.tag = "Ok"
    /\ \A f \in fetches : f.fid # res_version
    /\ \E f \in fetches :
          /\ f.phase = "done"
          /\ f.fid < res_version
          /\ FetchResult(f) # res_value
          /\ FetchResult(f).data.items # res_value.data.items

Fids(fs) == {f.fid : f \in fs}

\* C3: a step that changes one of the five inputs issues exactly one fetch,
\* of the page current_page holds after the step; a step that changes none
\* of them issues no fetch.
C3_OneFetchPerChange ==
    [][IF Source(version', current_page') # Source(version, current_page)
       THEN /\ res_version' = res_version + 1
            /\ fetches' = fetches \cup {NewFetch(res_version', current_page')}
            /\ res_version' \notin Fids(fetches)
       ELSE /\ res_version' = res_version
            /\ Fids(fetches') \subseteq Fids(fetches)]_vars

\* a navigation and a settlement have each issued their fetch, the later one
\* for page 1
C3_Witness ==
    /\ n_nav = 1
    /\ current_page = 1
    /\ version["complete"] = 1
    /\ res_version = 3
    /\ \E f \in fetches : f.fid = 3 /\ f.page = 1 /\ f.phase = "sent"

\* C4: a version counter never decreases; the counter of kind k goes up by
\* one in exactly the steps in which a dispatch of kind k settles, with Ok or
\* with Err, and in no other step, a dispatch included.
C4_VersionCounters ==
    [][\A k \in Kinds :
          /\ version'[k] >= version[k]
          /\ IF \E m \in mutations : m.kind = k /\ Settles(m)
             THEN version'[k] = version[k] + 1
             ELSE version'[k] = version[k]]_vars

\* a failed and a successful dispatch have both counted
C4_Witness ==
    /\ version["delete"] = 1
    /\ value["delete"].tag = "Err"
    /\ version["add"] = 1
    /\ value["add"].tag = "Ok"
    /\ version["complete"] = 0
    /\ version["update"] = 0

\* C5: when an Add, Update or Delete settles with an error the notification
\* is made visible with kind Error(message), and it stays so until a
\* dismissal timer fires.
C5_ErrorIsShown ==
    [][/\ \A m \in mutations :
             (Settles(m) /\ m.kind \in {"add", "update", "delete"}
                 /\ m.result.tag = "Err") =>
                (show_notification' /\ notification_type' = Error(m.result))
       /\ (show_notification /\ notification_type.tag = "Error" /\ ~Fires) =>
             (show_notification' /\ notification_type' = notification_type)]_vars

\* C6: a settlement of Complete, a failed one in particular, increments
\* complete_version and updates the notification state.
C6_CompleteNotifies ==
    [][\A m \in mutations :
          (Settles(m) /\ m.kind = "complete") =>
             /\ version'["complete"] = version["complete"] + 1
             /\ timers' # timers
             /\ m.result.tag = "Err" => notification_type' = Error(m.result)]_vars

\* C7: a notification is cleared no later than the firing of the timer its
\* settlement started: while the slot is set a timer is pending, the firing
\* of a timer leaves the slot cleared, whatever set it, and with timers that
\* do fire every set slot is cleared again.
C7_NotificationCleared ==
    /\ [](~Cleared => timers # <<>>)
    /\ [][Fires => (~show_notification' /\ notification_type' = None)]_vars
    /\ [](~Cleared => <>Cleared)

\* the timer of a settlement has fired and the slot it had set is cleared
C7_Witness ==
    /\ Cleared
    /\ timers = <<>>
    /\ version["add"] = 1
    /\ value["add"].tag = "Ok"
    /\ version["update"] = 1
    /\ value["update"].tag = "Err"

\* C8: the notification is one slot and every settlement of Add, Update or
\* Delete starts a timer of its own, cancelling none: such a settlement
\* overwrites the kind the slot holds and appends its timer to the pending
\* ones, and when an earlier timer fires while a later one is pending the slot
\* is cleared although the later timer has not fired.
C8_SingleSlotStackedTimers ==
    [][/\ \A m \in mutations :
             (Settles(m) /\ m.kind \in {"add", "update", "delete"}) =>
                /\ timers' = Append(timers, m.did)
                /\ notification_type' =
                      IF m.result.tag = "Ok" THEN Success(m.kind) ELSE Error(m.result)
       /\ (Fires /\ Len(timers) >= 2) =>
             (~show_notification' /\ notification_type' = None /\ timers' # <<>>)]_vars

\* two successes settled within a second: the first timer has fired and has
\* hidden the second notification, whose own timer is still pending
C8_Witness ==
    /\ version["add"] = 1
    /\ value["add"].tag = "Ok"
    /\ version["delete"] = 1
    /\ value["delete"].tag = "Ok"
    /\ Len(timers) = 1
    /\ Cleared

Ceil(a, b) == a \div b + (IF a % b = 0 THEN 0 ELSE 1)

\* C9: for every total a table with a serial id can hold, total_pages is
\* the ceiling of total / 10, is 0 exactly when total is 0, and the client's
\* value from response.total is the total_pages field of the response.
C9_TotalPages ==
    /\ ServerTotalPages(p_total) = Ceil(p_total, 10)
    /\ ServerTotalPages(p_total) = 0 <=> p_total = 0
    /\ TotalPages(p_total) = PaginatedTodos(<<>>, p_total, p_current).total_pages

C9_Witness ==
    /\ p_total = MaxSerial
    /\ TotalPages(p_total) = 214748365

\* C10: with window 5 and half 2 the window starts at 0 if current_page <= 2,
\* else at max(0, total_pages - 5) if current_page + 2 >= total_pages, else at
\* current_page - 2; it ends at min(start + 5, total_pages); and the page
\* buttons are the pages start .. end - 1 in order.
C10_Window ==
    LET tp    == TotalPages(p_total)
        start == IF p_current <= 2 THEN 0
                 ELSE IF p_current + 2 >= tp THEN Max(0, tp - 5)
                 ELSE p_current - 2
        end   == Min(start + 5, tp)
    IN  /\ StartPage(p_current, tp) = start
        /\ EndPage(p_current, tp) = end
        /\ VisiblePages(p_current, tp) = [i \in 1..Max(0, end - start) |-> start + i - 1]
        /\ \A n \in 0..(MaxTotal \div PER_PAGE + 2) :
              (\E i \in DOMAIN VisiblePages(p_current, tp) :
                    VisiblePages(p_current, tp)[i] = n)
                 <=> (start <= n /\ n < end)

\* the window is clamped at the upper boundary
C10_Witness ==
    /\ p_current = 6
    /\ TotalPages(p_total) = 7
    /\ VisiblePages(p_current, TotalPages(p_total)) = <<2, 3, 4, 5, 6>>

\* the window of page buttons rendered from the value of the resource
ShownPages == VisiblePages(current_page, ShownTotalPages)

InWindow(n, w) == \E i \in DOMAIN w : w[i] = n

\* C11: for every current_page and every total_pages >= 1 the window has
\* length min(5, total_pages), lies inside [0, total_pages) and, whenever
\* total_pages >= 5, contains current_page.
C11_WindowHoldsCurrent ==
    (ControlsShown /\ ShownTotalPages >= 1) =>
        /\ Len(ShownPages) = Min(5, ShownTotalPages)
        /\ \A i \in DOMAIN ShownPages :
              0 <= ShownPages[i] /\ ShownPages[i] < ShownTotalPages
        /\ ShownTotalPages >= 5 => InWindow(current_page, ShownPages)

\* C12: with total_pages that of the latest resolved fetch, First sets
\* current_page to 0, Last to total_pages - 1, Previous to current_page - 1
\* and never below 0, Next to current_page + 1 and never above
\* total_pages - 1, a page button to its page n, and every n a rendered page
\* button offers satisfies 0 <= n < total_pages.  A navigation writes nothing
\* but current_page: the store, the actions, the value of the resource, the
\* rendered rows and the notification are left alone, and the one reaction
\* is the fetch of the new page.
C12_Navigation ==
    /\ [](ControlsShown =>
            \A i \in DOMAIN ShownPages :
                0 <= ShownPages[i] /\ ShownPages[i] < ShownTotalPages)
    /\ [][/\ GoToFirst => current_page' = 0
          /\ GoToLast => (current_page' = ShownTotalPages - 1 /\ current_page' >= 0)
          /\ GoToPrev => (current_page' = current_page - 1 /\ current_page' >= 0)
          /\ GoToNext => (/\ current_page' = current_page + 1
                          /\ current_page' <= ShownTotalPages - 1)
          /\ \A n \in Pages :
                GoToPage(n) => (current_page' = n /\ 0 <= n /\ n < ShownTotalPages)
          /\ n_nav' # n_nav =>
                /\ UNCHANGED <<store_vars, action_vars, res_value, notif_vars,
                               rows, form_vars, search_vars>>
                /\ fetches' \subseteq fetches \cup {NewFetch(res_version', current_page')}]_vars

\* on a table of six pages Last and then Previous were clicked and page 4
\* is on display
C12_Witness ==
    /\ n_nav = 2
    /\ current_page = 4
    /\ ControlsShown
    /\ res_value.data.page = 4
    /\ ShownTotalPages = 6
    /\ ShownPages = <<1, 2, 3, 4, 5>>

\* C13: whenever the controls are rendered, First and Previous are disabled
\* exactly when current_page = 0 and Next and Last exactly when
\* current_page + 1 >= total_pages, and a disabled button moves nothing.  With
\* total = 23 on page 0: total_pages is 3, the window is 0, 1, 2, First and
\* Previous are disabled; Last or the page button 2 lead to page 2, where
\* Next and Last are disabled and Previous is enabled.
C13_DisabledButtons ==
    /\ [](ControlsShown =>
            /\ BackDisabled(current_page) <=> current_page = 0
            /\ ForwardDisabled(current_page, ShownTotalPages)
                  <=> current_page + 1 >= ShownTotalPages
            /\ (res_value.data.total = 23 /\ current_page = 0) =>
                  /\ ShownTotalPages = 3
                  /\ ShownPages = <<0, 1, 2>>
                  /\ BackDisabled(current_page)
                  /\ ~ForwardDisabled(current_page, ShownTotalPages)
            /\ (res_value.data.total = 23 /\ current_page = 2) =>
                  /\ ForwardDisabled(current_page, ShownTotalPages)
                  /\ ~BackDisabled(current_page))
    /\ [][/\ (GoToFirst \/ GoToPrev) => current_page # 0
          /\ (GoToNext \/ GoToLast) => current_page + 1 < ShownTotalPages
          /\ ((GoToLast \/ GoToPage(2))
                 /\ res_value.data.total = 23 /\ current_page = 0) =>
                current_page' = 2]_vars

\* of 23 records the last page, reached with one click, is on display
C13_Witness ==
    /\ ControlsShown
    /\ res_value.data.total = 23
    /\ res_value.data.page = 2
    /\ Len(rows) = 3
    /\ current_page = 2
    /\ n_nav = 1
    /\ ForwardDisabled(current_page, ShownTotalPages)

\* C14: when total_pages = 0 nothing the controls compute evaluates
\* total_pages - 1 so that it underflows, neither Last nor the test of the
\* end ellipsis: current_page stays 0, the window is empty, no ellipsis is
\* shown and First, Previous, Next and Last are all disabled.
C14_NoUnderflowOnEmptyTable ==
    (ControlsShown /\ ShownTotalPages = 0) =>
        /\ current_page = 0
        /\ ShownPages = <<>>
        /\ BackDisabled(current_page)
        /\ ForwardDisabled(current_page, ShownTotalPages)
        /\ ~ShowStartEllipsis(ShownPages)
        /\ ShowEndEllipsis(ShownPages, ShownTotalPages) = {"hidden"}

\* C15: an Add whose title is empty, such as title "" with due_date
\* "2024-01-01", is rejected in the browser: the click on submit sends no
\* request, writes nothing to the store and leaves add_version as it is, so
\* no AddTodo request carries an empty title and no stored title is empty.
C15_EmptyTitleRejectedLocally ==
    /\ [](\A m \in mutations : m.kind = "add" => m.title # "")
    /\ [](\A i \in 1..Len(todos) : todos[i].title # "")
    /\ [][\A d \in Descriptions, dd \in FormDueDates :
             AddFormSubmit("", d, dd) =>
                /\ mutations' = mutations
                /\ n_dispatch' = n_dispatch
                /\ UNCHANGED store_vars
                /\ version'["add"] = version["add"]]_vars

\* the browser has reported the empty title; no request was sent and the
\* table is the one the page was opened on
C15_Witness ==
    /\ validation_shown
    /\ n_dispatch = 0
    /\ mutations = {}
    /\ version["add"] = 0
    /\ Len(todos) = MaxInitRows
    /\ res_value.tag = "Ok"

\* a step in which the server function of the request m runs to its end
Executes(m) ==
    /\ m \in mutations
    /\ m.phase = "sent"
    /\ \E r \in mutations' : r.did = m.did /\ r.phase = "done"

\* what it returned
Returned(m) == (CHOOSE r \in mutations' : r.did = m.did).result

\* C16: an Add or an Update whose title or due_date is empty never reaches
\* the store: the server function returns an error before any write and the
\* store is unchanged.
C16_EmptyFieldsRejected ==
    [][\A m \in mutations :
          (/\ Executes(m)
           /\ m.kind \in {"add", "update"}
           /\ (m.title = "" \/ m.due_date = "")) =>
             (Returned(m).tag = "Err" /\ UNCHANGED store_vars)]_vars

Stored(id) == \E i \in 1..Len(todos) : todos[i].id = id

\* C17: an Update of an id that a concurrent Delete has already removed
\* succeeds and changes no row: update_todo returns Ok on an unchanged store,
\* its settlement shows SuccessUpdate and increments update_version, and once
\* everything has settled the page on display holds stored records only.
C17_UpdateOfDeletedRow ==
    /\ [][\A m \in mutations :
             /\ (ServerExec(m) /\ m.kind = "update" /\ ~Stored(m.id)) =>
                   (Returned(m) = Ok /\ UNCHANGED store_vars)
             /\ (Settles(m) /\ m.kind = "update" /\ m.result = Ok) =>
                   /\ show_notification'
                   /\ notification_type' = Success("update")
                   /\ version'["update"] = version["update"] + 1]_vars
    /\ []((Quiescent /\ res_value.tag = "Ok") =>
            \A i \in 1..Len(rows) : Stored(rows[i].todo.id))

\* the Delete of a record has settled and the Update of the same record,
\* sent from its edit panel, has come back Ok from the table without it
C17_Witness ==
    /\ version["delete"] = 1
    /\ value["delete"] = Ok
    /\ Len(todos) = MaxInitRows - 1
    /\ \E m \in mutations :
          /\ m.kind = "update"
          /\ m.phase = "done"
          /\ m.result = Ok
          /\ m.id = MaxInitRows
          /\ ~Stored(m.id)

ResolvesFailed ==
    \E f \in fetches : f.phase = "failed" /\ f.fid = res_version /\ Resolve(f)

Lists(items, id) == \E k \in 1..Len(items) : items[k].id = id

\* C19: completion is one-way and hides a record for good: no Add, Update,
\* Complete or Delete turns a completed row back, an id is never given to a
\* second row, and a page query or a search query returns no completed
\* record, each returned record carrying completed = false.
C19_CompletionOneWay ==
    /\ [][\A i \in 1..Len(todos) :
             todos[i].completed =>
                \A j \in 1..Len(todos') :
                    todos'[j].id = todos[i].id => todos'[j].completed]_vars
    /\ [](\A i, j \in 1..Len(todos) :
            /\ todos[i].id < next_id
            /\ todos[i].id = todos[j].id => i = j)
    /\ [](\A i \in 1..Len(todos) :
            todos[i].completed =>
               /\ \A p \in Pages : ~Lists(SelectPage(todos, p), todos[i].id)
               /\ \A q \in Queries : ~Lists(SearchTodo(todos, q), todos[i].id))
    /\ [](/\ \A p \in Pages : \A k \in 1..Len(SelectPage(todos, p)) :
                ~SelectPage(todos, p)[k].completed
          /\ \A q \in Queries : \A k \in 1..Len(SearchTodo(todos, q)) :
                ~SearchTodo(todos, q)[k].completed)
    /\ [][\A f \in fetches :
             FetchItems(f) =>
                \A i \in 1..Len(todos) :
                    todos[i].completed =>
                       \A g \in fetches' : g.fid = f.fid => ~Lists(g.items, todos[i].id)]_vars

\* the newest record was completed and then updated: it is still completed
\* and no longer counted
C19_Witness ==
    /\ Len(todos) = MaxInitRows
    /\ todos[MaxInitRows].completed
    /\ todos[MaxInitRows].title = "b"
    /\ CountEligible(todos) = MaxInitRows - 1
    /\ Len(SearchTodo(todos, "a")) = MaxInitRows - 1
    /\ SearchTodo(todos, "b") = <<>>

\* no row with this id is left to complete
NothingToComplete(id) ==
    \A i \in 1..Len(todos) : todos[i].id = id => todos[i].completed

\* C20: Complete and Delete are idempotent: complete_todo on an id that is
\* already completed (or stored nowhere) and delete_todo on an id that is
\* stored nowhere return Ok and leave the store as it is, so that the total
\* a page query counts afterwards is the one it counted before.
C20_Idempotent ==
    [][\A m \in mutations :
          /\ (ServerExec(m) /\ m.kind = "complete" /\ NothingToComplete(m.id)) =>
                /\ Returned(m) = Ok
                /\ UNCHANGED store_vars
                /\ CountEligible(todos') = CountEligible(todos)
          /\ (ServerExec(m) /\ m.kind = "delete" /\ ~Stored(m.id)) =>
                /\ Returned(m) = Ok
                /\ UNCHANGED store_vars
                /\ CountEligible(todos') = CountEligible(todos)]_vars

\* the newest record was completed twice and both calls returned Ok
C20_Witness ==
    /\ Len(todos) = MaxInitRows
    /\ todos[MaxInitRows].completed
    /\ CountEligible(todos) = MaxInitRows - 1
    /\ \E m1, m2 \in mutations :
          /\ m1.did = 1 /\ m2.did = 2
          /\ m1.kind = "complete" /\ m2.kind = "complete"
          /\ m1.id = MaxInitRows /\ m2.id = MaxInitRows
          /\ m1.phase = "done" /\ m2.phase = "done"
          /\ m1.result = Ok /\ m2.result = Ok

\* a step in which the timer of the debounce fires
DebounceFires == debounce_armed /\ ~debounce_armed'

\* a step that is an input event on the search input
Types == n_keys' # n_keys

\* C21: while keystrokes follow each other within 500 ms no search request
\* is issued, and when the 500 ms after the last keystroke have passed
\* exactly one request, carrying the final query string, is issued.
C21_OneRequestPerBurst ==
    [][/\ Types => UNCHANGED <<search_version, searches>>
       /\ DebounceFires =>
             /\ search_version' = search_version + 1
             /\ searches' = searches \cup {NewSearch(search_version', query)}]_vars

\* C21, amended: an input event issues no search request and restarts the
\* 500 ms; when they have passed, debounced takes the final query string and
\* one request carrying it is issued if it differs from the string debounced
\* held, none if it is that string again; every request carries the
\* debounced string, never an intermediate one; and the 500 ms do pass.
C21_Debounce ==
    /\ [][/\ Types =>
                (debounce_armed' /\ UNCHANGED <<debounced, search_version, searches>>)
          /\ DebounceFires =>
                /\ debounced' = query
                /\ IF query # debounced
                   THEN /\ search_version' = search_version + 1
                        /\ searches' = searches \cup {NewSearch(search_version', query)}
                   ELSE UNCHANGED <<search_version, searches>>
          /\ search_version' # search_version =>
                NewSearch(search_version', debounced') \in searches']_vars
    /\ [](debounce_armed => <>(~debounce_armed /\ debounced = query))

\* "a" and then "b" were typed within 500 ms: the one request issued since
\* the overlay was built carries "b"
C21_Witness ==
    /\ n_keys = 2
    /\ query = "b"
    /\ debounced = "b"
    /\ ~debounce_armed
    /\ version["complete"] = 0
    /\ search_version = 2
    /\ \E f \in searches : f.sid = 2 /\ f.query = "b"

Sids(fs) == {f.sid : f \in fs}

\* C22: a search fetch is issued exactly in the steps that change the
\* debounced query or complete_version, and it carries the debounced query;
\* the settlement of an Add, an Update or a Delete issues no search fetch and
\* leaves the search results on display as they are, while it does issue a
\* fetch of the paginated list.
C22_SearchFetchTriggers ==
    [][/\ IF SearchSource(debounced', version') # SearchSource(debounced, version)
          THEN /\ search_version' = search_version + 1
               /\ searches' = searches \cup {NewSearch(search_version', debounced')}
               /\ search_version' \notin Sids(searches)
          ELSE /\ search_version' = search_version
               /\ Sids(searches') \subseteq Sids(searches)
       /\ \A m \in mutations :
             (Settles(m) /\ m.kind \in {"add", "update", "delete"}) =>
                /\ UNCHANGED <<search_version, searches, search_value>>
                /\ SearchShown' = SearchShown
                /\ res_version' = res_version + 1
                /\ NewFetch(res_version', current_page) \in fetches']_vars

\* the overlay shows the results of the search for "a" made before a Delete
\* settled: the list has been refetched, the search has not
C22_Witness ==
    /\ debounced = "a"
    /\ search_version = 2
    /\ version["delete"] = 1
    /\ value["delete"] = Ok
    /\ Len(todos) = MaxInitRows - 1
    /\ Len(SearchShown) = MaxInitRows
    /\ res_version = 2

\* C23: on a record whose title and due_date are not empty, the draft of
\* the edit panel keeps a non-empty title and due_date whatever is typed: an
\* input event carrying the empty string leaves the title and the due date
\* of the draft as they are (the description takes it), so every Update that
\* Save dispatches carries a non-empty title and due_date.
C23_DraftNeverEmpty ==
    /\ [](\A i \in 1..Len(rows) :
            /\ rows[i].form_state.title # ""
            /\ rows[i].form_state.due_date # "")
    /\ [](\A m \in mutations :
            m.kind = "update" => (m.title # "" /\ m.due_date # ""))
    /\ [][\A i \in Clickable :
             /\ (OnInputTitle(i, "") \/ OnInputDueDate(i, "")) => rows' = rows
             /\ OnInputDescription(i, "") => rows'[i].form_state.description = ""
             /\ OnSubmit(i) =>
                   \E m \in mutations' \ mutations :
                       /\ m.title = rows[i].form_state.title /\ m.title # ""
                       /\ m.due_date = rows[i].form_state.due_date /\ m.due_date # ""]_vars

\* Save has sent a draft whose description was emptied and whose title was
\* typed over; the empty string typed into the title has not reached it
C23_Witness ==
    \E m \in mutations :
        /\ m.kind = "update"
        /\ m.title = "b"
        /\ m.description = ""
        /\ m.due_date = "2024-01-01"
        /\ m.phase = "sent"

\* the requests sent in this step
Sent == {m \in mutations' : m.phase = "sent"} \ mutations

\* C24: the edit panel of a rendered record is closed at first and opens on
\* a click on the record; Save dispatches exactly one Update, carrying the id
\* of the record and the values of the draft, and collapses the panel in the
\* same step, before the Update has settled and whatever its result will
\* be; no Update is dispatched but by Save.
C24_EditPanel ==
    [][/\ \A f \in fetches :
             (Resolve(f) /\ IsLatest(f.fid)) =>
                \A i \in 1..Len(rows') : rows'[i].hidden
       /\ \A i \in Clickable :
             /\ OnEdit(i) => (rows[i].hidden /\ ~rows'[i].hidden)
             /\ OnSubmit(i) =>
                   /\ Sent = {Mutation(n_dispatch', "update", rows[i].todo.id,
                                       rows[i].form_state.title,
                                       rows[i].form_state.description,
                                       rows[i].form_state.due_date)}
                   /\ rows'[i].hidden
                   /\ UNCHANGED <<version, value, store_vars>>
       /\ (\E m \in Sent : m.kind = "update") =>
             \E i \in Clickable : ~rows[i].hidden /\ OnSubmit(i)]_vars

\* Save was clicked on the newest record: its panel is closed again while
\* the Update carrying the typed title has not yet reached the server
C24_Witness ==
    /\ Len(rows) >= 1
    /\ rows[1].hidden
    /\ rows[1].form_state.title = "b"
    /\ version["update"] = 0
    /\ \E m \in mutations :
          /\ m.kind = "update"
          /\ m.phase = "sent"
          /\ m.id = rows[1].todo.id
          /\ m.title = "b"

\* C25: whenever the latest page fetch has resolved and nothing is in
\* flight, current_page is in range: current_page < total_pages, or
\* total_pages = 0 and current_page = 0; the view does not rest on a page
\* past the last one, showing an empty list while records remain.
C25_CurrentPageInRange ==
    (Quiescent /\ res_value.tag = "Ok") =>
        /\ \/ current_page < ShownTotalPages
           \/ (ShownTotalPages = 0 /\ current_page = 0)
        /\ ~(rows = <<>> /\ CountEligible(todos) > 0)

\* C26: every result of get_paginated_todos(page) is a snapshot of one
\* state of the store, also when a mutation writes while the fetch runs:
\* the number of its items is min(10, max(0, total - 10 * page)).
C26_ConsistentSnapshot ==
    \A f \in fetches :
        f.phase = "done" =>
           Len(FetchResult(f).data.items) =
              Min(10, Max(0, FetchResult(f).data.total - 10 * f.page))

\* a step that does not concern the edit panel of the record id: a mutation
\* on another record settles, or a page fetch that still lists the record
\* resolves
LeavesAlone(id) ==
    \/ \E m \in mutations : Settles(m) /\ m.id # id
    \/ \E f \in fetches :
          Resolve(f) /\ f.phase = "done" /\ Lists(FetchResult(f).data.items, id)

\* C27: an open edit panel and its draft on a record are left as they are by
\* the settlement of a mutation on another record and by a page refetch that
\* still lists the record: the panel stays open and the draft keeps its
\* values.
C27_OpenPanelUndisturbed ==
    [][\A i \in 1..Len(rows) :
          (~rows[i].hidden /\ LeavesAlone(rows[i].todo.id)) =>
             \E j \in 1..Len(rows') :
                 /\ rows'[j].todo.id = rows[i].todo.id
                 /\ ~rows'[j].hidden
                 /\ rows'[j].form_state = rows[i].form_state]_vars

FairSpec == Spec /\ WF_vars(TimerFire)

SearchFairSpec == SearchSpec /\ WF_vars(DebounceFire)

=============================================================================
